---- MODULE Spec2Model ----
(***************************************************************************)
(* Model of the batch MOV -> MP4 converter of src/src/main.rs: the main    *)
(* flow (prompt, encoder lookup, discovery, the per-file loop, summary)    *)
(* and the per-file progress ticker thread.  File names are sequences of   *)
(* one-character strings so that extension matching and file-name          *)
(* extraction are computed as std::path computes them.                     *)
(***************************************************************************)
EXTENDS Integers, Sequences, FiniteSets, TLC

\* ------------------------------------------------------------------ bounds
MaxEntries == 2

\* the count of ticks made after the stop flag was cleared saturates here
MaxLateTicks == 2

\* frames of the spinner that a tick steps through
SpinnerFrames == 2

\* ------------------------------------------------------- strings and paths
Str_mov == <<"m", "o", "v">>
Str_mp4 == <<"m", "p", "4">>
Str_yes == <<"y", "e", "s">>
Str_y == <<"y">>

Whitespace == {" ", "\n"}

\* char::to_ascii_lowercase on the characters the model uses
AsciiLower(c) ==
    CASE c = "A" -> "a" [] c = "E" -> "e" [] c = "M" -> "m"
      [] c = "O" -> "o" [] c = "S" -> "s" [] c = "V" -> "v"
      [] c = "Y" -> "y" [] OTHER -> c

ToLowercase(s) == [k \in 1..Len(s) |-> AsciiLower(s[k])]

\* OsStr::eq_ignore_ascii_case
EqIgnoreAsciiCase(s, t) == ToLowercase(s) = ToLowercase(t)

\* str::trim: drop leading and trailing whitespace
RECURSIVE TrimStart(_)
TrimStart(s) ==
    IF s # <<>> /\ Head(s) \in Whitespace THEN TrimStart(Tail(s)) ELSE s

RECURSIVE TrimEnd(_)
TrimEnd(s) ==
    IF s # <<>> /\ s[Len(s)] \in Whitespace
    THEN TrimEnd(SubSeq(s, 1, Len(s) - 1)) ELSE s

Trim(s) == TrimEnd(TrimStart(s))

\* index of the last occurrence of c in s, 0 if none
LastIndexOf(s, c) ==
    LET hits == {k \in 1..Len(s) : s[k] = c}
    IN  IF hits = {} THEN 0 ELSE CHOOSE k \in hits : \A j \in hits : j <= k

\* Path::file_name: the final component of the path
FileName(p) == SubSeq(p, LastIndexOf(p, "/") + 1, Len(p))

\* Path::extension: the part of the file name after its last dot; none when
\* there is no dot or the only dot is the first character
HasExtension(p) == LastIndexOf(FileName(p), ".") > 1

Extension(p) ==
    LET f == FileName(p)
    IN  SubSeq(f, LastIndexOf(f, ".") + 1, Len(f))

\* Path::file_stem
FileStem(p) ==
    LET f == FileName(p)
    IN  IF HasExtension(p) THEN SubSeq(f, 1, LastIndexOf(f, ".") - 1) ELSE f

\* Path::join of a directory and a file name
Join(dir, name) == dir \o <<"/">> \o name

\* PathBuf::with_extension
WithExtension(p, ext) ==
    LET d == LastIndexOf(p, "/")
    IN  SubSeq(p, 1, d) \o FileStem(p) \o <<".">> \o ext

\* ------------------------------------------------------------ environment
\* what the user may type at the prompt
PromptInputs ==
    { <<"y", "e", "s", "\n">>, <<"Y", "\n">>, <<" ", "Y", "E", "S", " ", "\n">>,
      <<"n", "o", "\n">>, <<"\n">>, <<"y", "e", "s", "s", "\n">> }

\* a byte of a file name that is not valid UTF-8
NonUtf8 == {"<ff>"}

\* OsStr::to_str succeeds on s
IsUtf8(s) == \A k \in 1..Len(s) : s[k] \notin NonUtf8

\* directory entries that the input directory may hold
CandidateEntries ==
    { [name |-> <<"a", ".", "m", "o", "v">>, kind |-> "file"],
      [name |-> <<"a", ".", "M", "O", "V">>, kind |-> "file"],
      [name |-> <<"b", ".", "m", "o", "v">>, kind |-> "dir"],
      [name |-> <<"c", ".", "t", "x", "t">>, kind |-> "file"],
      [name |-> <<"d">>, kind |-> "file"],
      [name |-> <<"<ff>", ".", "m", "o", "v">>, kind |-> "file"],
      [name |-> <<"?">>, kind |-> "err"] }

\* listings of the input directory: distinct entries, in listing order
Listings ==
    UNION { { s \in [1..n -> CandidateEntries] :
                \A j, k \in 1..n : j # k => s[j] # s[k] } : n \in 0..MaxEntries }

\* captured standard error of an encoder run, as bytes
StderrSamples == { <<98, 97, 100>>, <<98, 255>> }

\* how an encoder run may end: exit status zero or not, and its stderr
EncoderOutcomes ==
    { [status_ok |-> TRUE, stderr |-> <<98, 97, 100>>] }
    \cup { [status_ok |-> FALSE, stderr |-> e] : e \in StderrSamples }

\* String::from_utf8_lossy on byte strings made of ASCII bytes and bytes
\* that start no valid sequence: the latter become U+FFFD
FromUtf8Lossy(bytes) ==
    [k \in 1..Len(bytes) |-> IF bytes[k] < 128 THEN bytes[k] ELSE 65533]

NoError == [kind |-> "none", at |-> "none", text |-> <<>>]

MovDir == Str_mov
Mp4Dir == Str_mp4


\* ------------------------------------------------------------------ state
VARIABLES
    pc,               \* position of the main flow
    dir,              \* listing of the input directory
    files,            \* paths of the regular files present under the input directory
    mp4_dir_exists,   \* whether the output directory exists
    delete_after,     \* the deletion setting read from the prompt
    ffmpeg_path,      \* the resolved encoder path
    mov_filenames,    \* the discovered source paths
    total, success, failed,
    position, len, message, finished,   \* the progress bar
    spinner,          \* the spinner frame the bar shows
    i,                \* index in mov_filenames of the job being processed
    should_continue,  \* the stop flag of each job's ticker
    ticker,           \* position of each job's ticker thread
    late_ticks,       \* ticks the newest ticker made after its flag was cleared
    result,           \* what convert_mov_to_mp4 returned for the current job
    encoder_runs,     \* the encoder invocations launched so far
    encoder_exits,    \* the exit status and stderr of the finished ones
    removals,         \* the fs::remove_file calls made so far
    calls,            \* the progress-bar, thread and conversion calls made so far
    settled,          \* outcome of each job so far, in order
    out,              \* lines printed so far
    err,              \* the error main returned, if any
    exit_code         \* the status the process ends with

vars == <<pc, dir, files, mp4_dir_exists, delete_after, ffmpeg_path,
          mov_filenames, total, success, failed, position, len, message,
          finished, spinner, i, should_continue, ticker, late_ticks, result,
          encoder_runs, encoder_exits, removals, calls, settled, out, err, exit_code>>

env_vars == <<dir, files, mp4_dir_exists>>
batch_vars == <<mov_filenames, total, success, failed>>
bar_vars == <<position, len, message, finished>>
thread_vars == <<should_continue, ticker>>
log_vars == <<encoder_runs, encoder_exits, removals, calls, settled, out>>

Call(op, job) == [op |-> op, job |-> job]

Jobs == 1..MaxEntries

NoResult == [ok |-> FALSE, error |-> NoError]
OkResult == [ok |-> TRUE, error |-> NoError]
ErrResult(kind, at, text) ==
    [ok |-> FALSE, error |-> [kind |-> kind, at |-> at, text |-> text]]

Line(what, job, name, e, counts) ==
    [line |-> what, job |-> job, name |-> name, error |-> e, counts |-> counts]

SourceFiles(listing) ==
    { Join(MovDir, listing[k].name) :
        k \in {j \in 1..Len(listing) : listing[j].kind = "file"} }

Init ==
    /\ pc = "prompt"
    /\ dir \in Listings
    /\ files = SourceFiles(dir)
    /\ mp4_dir_exists \in BOOLEAN
    /\ delete_after = FALSE
    /\ ffmpeg_path = "unresolved"
    /\ mov_filenames = <<>>
    /\ total = 0 /\ success = 0 /\ failed = 0
    /\ position = 0 /\ len = 0 /\ message = <<>> /\ finished = FALSE
    /\ spinner = 0
    /\ i = 0
    /\ should_continue = [k \in Jobs |-> FALSE]
    /\ ticker = [k \in Jobs |-> "unborn"]
    /\ late_ticks = 0
    /\ result = NoResult
    /\ encoder_runs = <<>>
    /\ encoder_exits = <<>>
    /\ removals = <<>>
    /\ calls = <<>>
    /\ settled = <<>>
    /\ out = <<>>
    /\ err = NoError
    /\ exit_code = "running"

\* main returns Err(e): the process ends with a failure status
Abort(kind, at) ==
    /\ pc' = "error"
    /\ err' = [kind |-> kind, at |-> at, text |-> <<>>]
    /\ exit_code' = "failure"

\* main, lines 25-30: the prompt
ParseAnswer(input) ==
    ToLowercase(Trim(input)) = Str_yes \/ ToLowercase(Trim(input)) = Str_y

Prompt ==
    /\ pc = "prompt"
    /\ \/ \E input \in PromptInputs :
            /\ delete_after' = ParseAnswer(input)
            /\ pc' = "get_ffmpeg_path"
            /\ UNCHANGED <<err, exit_code>>
       \/ /\ Abort("IoError", "prompt")
          /\ UNCHANGED delete_after
    /\ UNCHANGED <<late_ticks, spinner, env_vars, ffmpeg_path, batch_vars,
                   bar_vars, i, thread_vars, result, log_vars>>

\* get_ffmpeg_path, lines 209-234
GetFfmpegPathResult(which, bundled_exists) ==
    IF which = "found" THEN [ok |-> TRUE, path |-> "PATH", kind |-> "none"]
    ELSE IF which = "found_not_utf8"
         THEN [ok |-> FALSE, path |-> "unresolved", kind |-> "PathError"]
    ELSE IF ~bundled_exists
         THEN [ok |-> FALSE, path |-> "unresolved", kind |-> "FFmpegError"]
    ELSE [ok |-> TRUE, path |-> "bundled", kind |-> "none"]

GetFfmpegPath ==
    /\ pc = "get_ffmpeg_path"
    /\ \E which \in {"found", "found_not_utf8", "not_found"},
          bundled_exists \in BOOLEAN :
         LET r == GetFfmpegPathResult(which, bundled_exists)
         IN  IF r.ok
             THEN /\ ffmpeg_path' = r.path
                  /\ pc' = "get_all_mov"
                  /\ UNCHANGED <<err, exit_code>>
             ELSE /\ Abort(r.kind, "get_ffmpeg_path")
                  /\ UNCHANGED ffmpeg_path
    /\ UNCHANGED <<late_ticks, spinner, env_vars, delete_after, batch_vars,
                   bar_vars, i, thread_vars, result, log_vars>>

\* variant of IsMov that compares the extension case-sensitively
IsMov_case_sensitive(name) == HasExtension(name) /\ Extension(name) = Str_mov

\* get_all_mov, lines 102-120: the loop over the directory entries
IsMov(name) == HasExtension(name) /\ EqIgnoreAsciiCase(Extension(name), Str_mov)

DiscoveryOk(names) ==
    [ok |-> TRUE, names |-> names, kind |-> "none", at |-> "none"]
DiscoveryErr(kind, at) ==
    [ok |-> FALSE, names |-> <<>>, kind |-> kind, at |-> at]

RECURSIVE ScanEntries(_, _, _)
ScanEntries(entries, k, acc) ==
    IF k > Len(entries) THEN DiscoveryOk(acc)
    ELSE IF entries[k].kind = "err" THEN DiscoveryErr("IoError", "read_entry")
    ELSE IF entries[k].kind # "file" THEN ScanEntries(entries, k + 1, acc)
    ELSE IF ~IsMov(entries[k].name) THEN ScanEntries(entries, k + 1, acc)
    ELSE IF ~IsUtf8(FileName(entries[k].name))
         THEN ScanEntries(entries, k + 1, acc)
    ELSE IF ~IsUtf8(Join(MovDir, FileName(entries[k].name)))
         THEN DiscoveryErr("PathError", "to_str")
    ELSE ScanEntries(entries, k + 1,
                     Append(acc, Join(MovDir, FileName(entries[k].name))))

\* the two precondition failures: no encoder, input directory unreadable
IsPreconditionError(e) ==
    \/ e.kind = "FFmpegError" /\ e.at = "get_ffmpeg_path"
    \/ e.kind = "IoError" /\ e.at = "read_dir"

\* get_all_mov, lines 98-123
GetAllMovResult(readable, entries) ==
    IF ~readable THEN DiscoveryErr("IoError", "read_dir")
    ELSE ScanEntries(entries, 1, <<>>)

\* variant of GetAllMov that notes a failed discovery and carries on with
\* no files
GetAllMov_continues ==
    /\ pc = "get_all_mov"
    /\ \E readable \in BOOLEAN :
         LET r == GetAllMovResult(readable, dir)
         IN  /\ mov_filenames' = r.names
             /\ pc' = "begin"
             /\ err' = IF r.ok THEN err
                       ELSE [kind |-> r.kind, at |-> r.at, text |-> <<>>]
             /\ UNCHANGED exit_code
    /\ UNCHANGED <<late_ticks, spinner, env_vars, delete_after, ffmpeg_path,
                   total, success, failed, bar_vars, i, thread_vars, result,
                   log_vars>>

GetAllMov ==
    /\ pc = "get_all_mov"
    /\ \E readable \in BOOLEAN :
         LET r == GetAllMovResult(readable, dir)
         IN  IF r.ok
             THEN /\ mov_filenames' = r.names
                  /\ pc' = "begin"
                  /\ UNCHANGED <<err, exit_code>>
             ELSE /\ Abort(r.kind, r.at)
                  /\ UNCHANGED mov_filenames
    /\ UNCHANGED <<late_ticks, spinner, env_vars, delete_after, ffmpeg_path,
                   total, success, failed, bar_vars, i, thread_vars, result,
                   log_vars>>

\* variant of Begin that makes the output directory up front
Begin_creates_dir ==
    /\ pc = "begin"
    /\ total' = Len(mov_filenames)
    /\ out' = Append(out, Line("found", 0, <<>>, NoError,
                               <<Len(mov_filenames), 0, 0>>))
    /\ success' = 0
    /\ failed' = 0
    /\ position' = 0
    /\ len' = Len(mov_filenames)
    /\ mp4_dir_exists' = TRUE
    /\ calls' = Append(calls, Call("create_dir", 0))
    /\ pc' = "loop"
    /\ UNCHANGED <<late_ticks, encoder_exits, spinner, dir, files,
                   delete_after, ffmpeg_path, mov_filenames, message,
                   finished, i, thread_vars, result, encoder_runs, removals,
                   settled, err, exit_code>>

\* main, lines 34-45: count the files, create the progress bar
Begin ==
    /\ pc = "begin"
    /\ total' = Len(mov_filenames)
    /\ out' = Append(out, Line("found", 0, <<>>, NoError,
                               <<Len(mov_filenames), 0, 0>>))
    /\ success' = 0
    /\ failed' = 0
    /\ position' = 0
    /\ len' = Len(mov_filenames)
    /\ pc' = "loop"
    /\ UNCHANGED <<late_ticks, encoder_exits, calls, spinner, env_vars,
                   delete_after, ffmpeg_path, mov_filenames, message,
                   finished, i, thread_vars, result, encoder_runs, removals,
                   settled, err, exit_code>>

\* main, lines 48-51
DisplayName(mov_filename) == FileName(mov_filename)

\* main, lines 47-53: take the next file and set the bar's message
NextJob ==
    /\ pc = "loop"
    /\ i < Len(mov_filenames)
    /\ i' = i + 1
    /\ message' = <<"Converting: ", DisplayName(mov_filenames[i + 1])>>
    /\ calls' = Append(calls, Call("set_message", i + 1))
    /\ pc' = "spawn"
    /\ UNCHANGED <<late_ticks, encoder_exits, spinner, env_vars, delete_after,
                   ffmpeg_path, batch_vars, position, len, finished,
                   thread_vars, result, encoder_runs, removals, settled, out,
                   err, exit_code>>

\* main, lines 56-66: create the flag and start the ticker thread
SpawnTicker ==
    /\ pc = "spawn"
    /\ should_continue' = [should_continue EXCEPT ![i] = TRUE]
    /\ ticker' = [ticker EXCEPT ![i] = "load"]
    /\ late_ticks' = 0
    /\ calls' = Append(calls, Call("spawn", i))
    /\ pc' = "convert"
    /\ UNCHANGED <<encoder_exits, spinner, env_vars, delete_after,
                   ffmpeg_path, batch_vars, bar_vars, i, result, encoder_runs,
                   removals, settled, out, err, exit_code>>

\* variant of TickerLoad that never sees the flag cleared
TickerLoad_ignores_flag(k) ==
    /\ ticker[k] = "load"
    /\ ticker' = [ticker EXCEPT ![k] = "sleeping"]
    /\ UNCHANGED <<late_ticks, spinner, pc, env_vars, delete_after,
                   ffmpeg_path, batch_vars, bar_vars, i, should_continue,
                   result, log_vars, err, exit_code>>

\* ticker thread, line 62: test the flag
TickerLoad(k) ==
    /\ ticker[k] = "load"
    /\ ticker' = [ticker EXCEPT
                    ![k] = IF should_continue[k] THEN "sleeping" ELSE "exited"]
    /\ UNCHANGED <<late_ticks, spinner, pc, env_vars, delete_after,
                   ffmpeg_path, batch_vars, bar_vars, i, should_continue,
                   result, log_vars, err, exit_code>>

\* variant of TickerTick that advances the bar instead of refreshing it
TickerTick_advances(k) ==
    /\ ticker[k] = "sleeping"
    /\ position' = position + 1
    /\ ticker' = [ticker EXCEPT ![k] = "load"]
    /\ UNCHANGED <<late_ticks, spinner, pc, env_vars, delete_after,
                   ffmpeg_path, batch_vars, len, message, finished, i,
                   should_continue, result, log_vars, err, exit_code>>

\* ticker thread, lines 63-64: sleep, then refresh the bar
TickerTick(k) ==
    /\ ticker[k] = "sleeping"
    /\ spinner' = (spinner + 1) % SpinnerFrames
    /\ late_ticks' = IF should_continue[k] \/ late_ticks >= MaxLateTicks
                     THEN late_ticks
                     ELSE late_ticks + 1
    /\ ticker' = [ticker EXCEPT ![k] = "load"]
    /\ UNCHANGED <<pc, env_vars, delete_after, ffmpeg_path, batch_vars,
                   bar_vars, i, should_continue, result, log_vars, err,
                   exit_code>>

\* convert_mov_to_mp4, lines 138-141: the output path of a source path
Mp4File(mov_filename) == WithExtension(Join(Mp4Dir, FileName(mov_filename)), Str_mp4)

\* variant of ConvertStart that starts the encoder and does not wait for it
ConvertStart_no_wait ==
    /\ pc = "convert"
    /\ mp4_dir_exists' = TRUE
    /\ calls' = IF mp4_dir_exists
                THEN Append(calls, Call("convert", i))
                ELSE calls \o <<Call("convert", i), Call("create_dir", i)>>
    /\ encoder_runs' = Append(encoder_runs,
           [job |-> i, input |-> mov_filenames[i],
            output |-> Mp4File(mov_filenames[i])])
    /\ result' = OkResult
    /\ pc' = "match"
    /\ UNCHANGED <<late_ticks, encoder_exits, spinner, dir, files,
                   delete_after, ffmpeg_path, batch_vars, bar_vars, i,
                   thread_vars, removals, settled, out, err, exit_code>>

\* convert_mov_to_mp4, lines 130-199: make the output directory, build the
\* command line, launch the encoder
ConvertStart ==
    /\ pc = "convert"
    /\ \E created \in BOOLEAN, launched \in BOOLEAN :
         IF ~mp4_dir_exists /\ ~created
         THEN /\ result' = ErrResult("IoError", "create_dir", <<>>)
              /\ calls' = Append(calls, Call("convert", i))
              /\ pc' = "match"
              /\ UNCHANGED <<mp4_dir_exists, encoder_runs>>
         ELSE /\ mp4_dir_exists' = TRUE
              /\ calls' = IF mp4_dir_exists
                          THEN Append(calls, Call("convert", i))
                          ELSE calls \o <<Call("convert", i), Call("create_dir", i)>>
              /\ IF launched
                 THEN /\ encoder_runs' = Append(encoder_runs,
                             [job |-> i, input |-> mov_filenames[i],
                              output |-> Mp4File(mov_filenames[i])])
                      /\ pc' = "encoding"
                      /\ UNCHANGED result
                 ELSE /\ result' = ErrResult("IoError", "launch", <<>>)
                      /\ pc' = "match"
                      /\ UNCHANGED encoder_runs
    /\ UNCHANGED <<late_ticks, encoder_exits, spinner, dir, files,
                   delete_after, ffmpeg_path, batch_vars, bar_vars, i,
                   thread_vars, removals, settled, out, err, exit_code>>

\* variant of ConvertResult that loses the captured stderr
ConvertResult_drops_stderr(status_ok, stderr) ==
    IF status_ok THEN OkResult
    ELSE ErrResult("FFmpegError", "encoder", <<>>)

\* convert_mov_to_mp4, lines 197-206: the encoder exits, its status is read
ConvertResult(status_ok, stderr) ==
    IF status_ok THEN OkResult
    ELSE ErrResult("FFmpegError", "encoder", FromUtf8Lossy(stderr))

EncoderExit ==
    /\ pc = "encoding"
    /\ \E o \in EncoderOutcomes :
         /\ result' = ConvertResult(o.status_ok, o.stderr)
         /\ encoder_exits' = Append(encoder_exits,
                [job |-> i, status_ok |-> o.status_ok, stderr |-> o.stderr])
    /\ pc' = "match"
    /\ UNCHANGED <<late_ticks, spinner, env_vars, delete_after, ffmpeg_path,
                   batch_vars, bar_vars, i, thread_vars, encoder_runs,
                   removals, calls, settled, out, err, exit_code>>

\* remove_mov, lines 236-239: fs::remove_file succeeds or fails
RemoveMov(mov_filename, removed) ==
    /\ files' = IF removed THEN files \ {mov_filename} ELSE files
    /\ removals' = Append(removals, [path |-> mov_filename, ok |-> removed])

\* variant of DeleteSource that deletes whatever the setting says
DeleteSource_ignores_setting ==
    /\ pc = "match"
    /\ result.ok
    /\ \E removed \in BOOLEAN : RemoveMov(mov_filenames[i], removed)
    /\ pc' = "count_success"
    /\ UNCHANGED <<late_ticks, encoder_exits, calls, spinner, dir,
                   mp4_dir_exists, delete_after, ffmpeg_path, batch_vars,
                   bar_vars, i, thread_vars, result, encoder_runs, settled,
                   out, err, exit_code>>

\* variant of DeleteSource that returns a failed removal from main
DeleteSource_propagates ==
    /\ pc = "match"
    /\ result.ok
    /\ IF delete_after
       THEN \E removed \in BOOLEAN :
              /\ RemoveMov(mov_filenames[i], removed)
              /\ IF removed
                 THEN pc' = "count_success" /\ UNCHANGED <<err, exit_code>>
                 ELSE Abort("IoError", "remove_file")
       ELSE /\ pc' = "count_success"
            /\ UNCHANGED <<files, removals, err, exit_code>>
    /\ UNCHANGED <<late_ticks, encoder_exits, calls, spinner, dir,
                   mp4_dir_exists, delete_after, ffmpeg_path, batch_vars,
                   bar_vars, i, thread_vars, result, encoder_runs, settled,
                   out>>

\* main, lines 69-72: Ok arm, the deletion policy
DeleteSource ==
    /\ pc = "match"
    /\ result.ok
    /\ IF delete_after
       THEN \E removed \in BOOLEAN : RemoveMov(mov_filenames[i], removed)
       ELSE UNCHANGED <<files, removals>>
    /\ pc' = "count_success"
    /\ UNCHANGED <<late_ticks, encoder_exits, calls, spinner, dir,
                   mp4_dir_exists, delete_after, ffmpeg_path, batch_vars,
                   bar_vars, i, thread_vars, result, encoder_runs, settled,
                   out, err, exit_code>>

\* main, line 73
CountSuccess ==
    /\ pc = "count_success"
    /\ success' = success + 1
    /\ settled' = Append(settled, "Success")
    /\ pc' = "print_success"
    /\ UNCHANGED <<late_ticks, encoder_exits, calls, spinner, env_vars,
                   delete_after, ffmpeg_path, mov_filenames, total, failed,
                   bar_vars, i, thread_vars, result, encoder_runs, removals,
                   out, err, exit_code>>

\* main, line 74
PrintSuccess ==
    /\ pc = "print_success"
    /\ out' = Append(out, Line("success", i, DisplayName(mov_filenames[i]),
                               NoError, <<0, 0, 0>>))
    /\ pc' = "stop"
    /\ UNCHANGED <<late_ticks, encoder_exits, calls, spinner, env_vars,
                   delete_after, ffmpeg_path, batch_vars, bar_vars, i,
                   thread_vars, result, encoder_runs, removals, settled, err,
                   exit_code>>

\* variant of CountFailure that leaves the counter alone
CountFailure_not_counted ==
    /\ pc = "match"
    /\ ~result.ok
    /\ settled' = Append(settled, "Failure")
    /\ pc' = "print_failure"
    /\ UNCHANGED <<late_ticks, encoder_exits, calls, spinner, env_vars,
                   delete_after, ffmpeg_path, batch_vars, bar_vars, i,
                   thread_vars, result, encoder_runs, removals, out, err,
                   exit_code>>

\* variant of CountFailure that applies the deletion policy to a failed job
CountFailure_deletes ==
    /\ pc = "match"
    /\ ~result.ok
    /\ IF delete_after
       THEN RemoveMov(mov_filenames[i], TRUE)
       ELSE UNCHANGED <<files, removals>>
    /\ failed' = failed + 1
    /\ settled' = Append(settled, "Failure")
    /\ pc' = "print_failure"
    /\ UNCHANGED <<late_ticks, encoder_exits, calls, spinner, dir,
                   mp4_dir_exists, delete_after, ffmpeg_path, mov_filenames,
                   total, success, bar_vars, i, thread_vars, result,
                   encoder_runs, out, err, exit_code>>

\* variant of CountFailure that returns the job's error from main
CountFailure_propagates ==
    /\ pc = "match"
    /\ ~result.ok
    /\ pc' = "error"
    /\ err' = result.error
    /\ exit_code' = "failure"
    /\ UNCHANGED <<late_ticks, spinner, env_vars, delete_after, ffmpeg_path,
                   batch_vars, bar_vars, i, thread_vars, result, log_vars>>

\* main, lines 76-77: Err arm
CountFailure ==
    /\ pc = "match"
    /\ ~result.ok
    /\ failed' = failed + 1
    /\ settled' = Append(settled, "Failure")
    /\ pc' = "print_failure"
    /\ UNCHANGED <<late_ticks, encoder_exits, calls, spinner, env_vars,
                   delete_after, ffmpeg_path, mov_filenames, total, success,
                   bar_vars, i, thread_vars, result, encoder_runs, removals,
                   out, err, exit_code>>

\* main, line 78
PrintFailure ==
    /\ pc = "print_failure"
    /\ out' = Append(out, Line("failure", i, DisplayName(mov_filenames[i]),
                               result.error, <<0, 0, 0>>))
    /\ pc' = "stop"
    /\ UNCHANGED <<late_ticks, encoder_exits, calls, spinner, env_vars,
                   delete_after, ffmpeg_path, batch_vars, bar_vars, i,
                   thread_vars, result, encoder_runs, removals, settled, err,
                   exit_code>>

\* variant of StopTicker that forgets to clear the flag
StopTicker_no_store ==
    /\ pc = "stop"
    /\ result' = NoResult
    /\ calls' = Append(calls, Call("store_false", i))
    /\ pc' = "join"
    /\ UNCHANGED <<late_ticks, encoder_exits, spinner, env_vars, delete_after,
                   ffmpeg_path, batch_vars, bar_vars, i, thread_vars,
                   encoder_runs, removals, settled, out, err, exit_code>>

\* main, line 83: clear the flag
StopTicker ==
    /\ pc = "stop"
    /\ should_continue' = [should_continue EXCEPT ![i] = FALSE]
    /\ result' = NoResult
    /\ calls' = Append(calls, Call("store_false", i))
    /\ pc' = "join"
    /\ UNCHANGED <<late_ticks, encoder_exits, spinner, env_vars, delete_after,
                   ffmpeg_path, batch_vars, bar_vars, i, ticker, encoder_runs,
                   removals, settled, out, err, exit_code>>

\* variant of JoinTicker that does not wait for the thread
JoinTicker_no_wait ==
    /\ pc = "join"
    /\ calls' = Append(calls, Call("join", i))
    /\ pc' = "inc"
    /\ UNCHANGED <<late_ticks, encoder_exits, spinner, env_vars, delete_after,
                   ffmpeg_path, batch_vars, bar_vars, i, thread_vars, result,
                   encoder_runs, removals, settled, out, err, exit_code>>

\* main, line 84: wait for the ticker thread to end
JoinTicker ==
    /\ pc = "join"
    /\ ticker[i] = "exited"
    /\ calls' = Append(calls, Call("join", i))
    /\ pc' = "inc"
    /\ UNCHANGED <<late_ticks, encoder_exits, spinner, env_vars, delete_after,
                   ffmpeg_path, batch_vars, bar_vars, i, thread_vars, result,
                   encoder_runs, removals, settled, out, err, exit_code>>

\* variant of Advance that moves the bar for successful jobs only
Advance_only_on_success ==
    /\ pc = "inc"
    /\ position' = IF settled[i] = "Success" THEN position + 1 ELSE position
    /\ calls' = Append(calls, Call("inc", i))
    /\ pc' = "loop"
    /\ UNCHANGED <<late_ticks, encoder_exits, spinner, env_vars, delete_after,
                   ffmpeg_path, batch_vars, len, message, finished, i,
                   thread_vars, result, encoder_runs, removals, settled, out,
                   err, exit_code>>

\* main, line 85: pb.inc(1)
Advance ==
    /\ pc = "inc"
    /\ position' = position + 1
    /\ calls' = Append(calls, Call("inc", i))
    /\ pc' = "loop"
    /\ UNCHANGED <<late_ticks, encoder_exits, spinner, env_vars, delete_after,
                   ffmpeg_path, batch_vars, len, message, finished, i,
                   thread_vars, result, encoder_runs, removals, settled, out,
                   err, exit_code>>

\* main, line 88: pb.finish_with_message
Finish ==
    /\ pc = "loop"
    /\ i = Len(mov_filenames)
    /\ position' = len
    /\ message' = <<"Conversion complete">>
    /\ finished' = TRUE
    /\ calls' = Append(calls, Call("finish", 0))
    /\ pc' = "summary"
    /\ UNCHANGED <<late_ticks, encoder_exits, spinner, env_vars, delete_after,
                   ffmpeg_path, batch_vars, len, i, thread_vars, result,
                   encoder_runs, removals, settled, out, err, exit_code>>

\* main, lines 90-95: print the summary, return Ok
Summary ==
    /\ pc = "summary"
    /\ out' = Append(out, Line("summary", 0, <<>>, NoError,
                               <<total, success, failed>>))
    /\ pc' = "done"
    /\ exit_code' = "success"
    /\ UNCHANGED <<late_ticks, encoder_exits, calls, spinner, env_vars,
                   delete_after, ffmpeg_path, batch_vars, bar_vars, i,
                   thread_vars, result, encoder_runs, removals, settled, err>>

Next ==
    \/ Prompt
    \/ GetFfmpegPath
    \/ GetAllMov
    \/ Begin
    \/ NextJob
    \/ SpawnTicker
    \/ \E k \in Jobs : TickerLoad(k)
    \/ \E k \in Jobs : TickerTick(k)
    \/ ConvertStart
    \/ EncoderExit
    \/ DeleteSource
    \/ CountSuccess
    \/ PrintSuccess
    \/ CountFailure
    \/ PrintFailure
    \/ StopTicker
    \/ JoinTicker
    \/ Advance
    \/ Finish
    \/ Summary

Spec == Init /\ [][Next]_vars

\* the steps of the main flow
MainStep ==
    \/ Prompt \/ GetFfmpegPath \/ GetAllMov \/ Begin \/ NextJob \/ SpawnTicker
    \/ ConvertStart \/ EncoderExit \/ DeleteSource \/ CountSuccess
    \/ PrintSuccess \/ CountFailure \/ PrintFailure \/ StopTicker
    \/ JoinTicker \/ Advance \/ Finish \/ Summary

\* the steps of the ticker threads
TickerStep == \E k \in Jobs : TickerLoad(k) \/ TickerTick(k)

\* the operating system keeps scheduling the main thread and every ticker
\* thread, a sleep ends, and every encoder run ends
FairSpec ==
    /\ Init /\ [][Next]_vars
    /\ WF_vars(MainStep)
    /\ WF_vars(TickerStep)

\* ------------------------------------------------------------ type check
TypeOK ==
    /\ pc \in {"prompt", "get_ffmpeg_path", "get_all_mov", "begin", "loop", "spawn",
               "convert", "encoding", "match", "count_success", "print_success",
               "print_failure", "stop", "join", "inc", "summary", "done", "error"}
    /\ delete_after \in BOOLEAN
    /\ i \in 0..MaxEntries
    /\ ticker \in [Jobs -> {"unborn", "load", "sleeping", "exited"}]
    /\ should_continue \in [Jobs -> BOOLEAN]
    /\ late_ticks \in 0..MaxLateTicks
    /\ spinner \in 0..(SpinnerFrames - 1)
    /\ exit_code \in {"running", "success", "failure"}

\* ------------------------------------------------------------- properties
Count(seq, P(_)) == Cardinality({k \in DOMAIN seq : P(seq[k])})

IsSummary(l) == l.line = "summary"
IsSuccess(o) == o = "Success"
IsFailure(o) == o = "Failure"

ReportsOf(job) ==
    {k \in DOMAIN out : out[k].line \in {"success", "failure"} /\ out[k].job = job}

RemovalsOf(path) == {k \in DOMAIN removals : removals[k].path = path}

\* C1: in the final summary succeeded + failed = total; every discovered
\* job has exactly one outcome and one report line, none skipped, none
\* counted twice
C1_SummaryAddsUp ==
    \A n \in DOMAIN out : IsSummary(out[n]) =>
        /\ out[n].counts[2] + out[n].counts[3] = out[n].counts[1]
        /\ out[n].counts[1] = Len(mov_filenames)
        /\ Len(settled) = Len(mov_filenames)
        /\ out[n].counts[2] = Count(settled, IsSuccess)
        /\ out[n].counts[3] = Count(settled, IsFailure)
        /\ \A j \in 1..Len(mov_filenames) : Cardinality(ReportsOf(j)) = 1

C1_Witness ==
    /\ pc = "done"
    /\ Count(out, IsSummary) = 1
    /\ success >= 1
    /\ failed >= 1

\* C2 as stated: a job with outcome Success has its source file gone when
\* deletion is enabled and still present when deletion is disabled
C2_AsStated ==
    \A k \in DOMAIN settled : settled[k] = "Success" =>
        /\ delete_after => mov_filenames[k] \notin files
        /\ ~delete_after => mov_filenames[k] \in files

\* C2 amended: for a job with outcome Success, when deletion is enabled the
\* source file was asked to be removed exactly once and is gone unless that
\* removal failed, in which case it is still present; when deletion is
\* disabled no removal was asked for and the source file is still present
C2_DeletionPolicy ==
    \A k \in DOMAIN settled : settled[k] = "Success" =>
        LET path == mov_filenames[k] IN
        /\ delete_after =>
             /\ Cardinality(RemovalsOf(path)) = 1
             /\ \A r \in RemovalsOf(path) :
                  /\ removals[r].ok => path \notin files
                  /\ ~removals[r].ok => path \in files
        /\ ~delete_after =>
             /\ RemovalsOf(path) = {}
             /\ path \in files

C2_Witness ==
    /\ pc = "done"
    /\ delete_after
    /\ \E k \in DOMAIN settled :
         /\ settled[k] = "Success"
         /\ mov_filenames[k] \notin files
    /\ \E k \in DOMAIN settled :
         /\ settled[k] = "Success"
         /\ mov_filenames[k] \in files

\* C3: a job with outcome Failure never has its source file removed,
\* whatever the deletion setting: no removal is asked for and the file is
\* still present once the job is settled and until the end of the run
C3_FailureKeepsSource ==
    /\ \A k \in DOMAIN settled : settled[k] = "Failure" =>
         /\ RemovalsOf(mov_filenames[k]) = {}
         /\ mov_filenames[k] \in files
    /\ (pc = "match" /\ ~result.ok) => mov_filenames[i] \in files

C3_Witness ==
    /\ pc = "done"
    /\ delete_after
    /\ Len(settled) = 2
    /\ settled[1] = "Failure"
    /\ settled[2] = "Success"
    /\ mov_filenames[1] \in files
    /\ mov_filenames[2] \notin files

Alive(k) == ticker[k] \in {"load", "sleeping"}

\* a tick: the ticker thread of job k refreshes the bar
TickStep(k) == ticker[k] = "sleeping" /\ ticker'[k] = "load"

\* positions of the main flow after convert_mov_to_mp4 has returned for a
\* job and before the message of the next one is set
AfterInvocation ==
    {"match", "count_success", "print_success", "print_failure", "stop", "join",
     "inc", "loop", "summary", "done"}

InJob ==
    {"spawn", "convert", "encoding", "match", "count_success", "print_success",
     "print_failure", "stop", "join", "inc"}

CallsOf(op, job) == {n \in DOMAIN calls : calls[n] = Call(op, job)}

\* C4 as stated: no tick happens after a job's encoder invocation has
\* completed and before the next job's message is set
C4_AsStated ==
    [][\A k \in Jobs : TickStep(k) => pc \notin AfterInvocation]_vars

\* C5 as stated: when the success or failure line of a job is printed, the
\* job's ticker is already stopped: flag cleared, thread ended
C5_AsStated ==
    [][\A j \in Jobs : ReportsOf(j)' # ReportsOf(j) =>
          ~should_continue[j] /\ ticker[j] = "exited"]_vars

\* C6: the ticker of job N has ended before the message of job N+1 is set
\* and before its ticker starts; at most one ticker thread is alive, and
\* none when finish is called
C6_TickersDoNotOverlap ==
    /\ Cardinality({k \in Jobs : Alive(k)}) <= 1
    /\ \A k \in Jobs : Alive(k) => k = i
    /\ \A k \in Jobs : k < i => ticker[k] = "exited"
    /\ pc \in {"loop", "spawn", "summary", "done"} => \A k \in Jobs : ~Alive(k)
    /\ \A k \in Jobs : CallsOf("set_message", k) # {} =>
          \A j \in Jobs : j < k => ticker[j] = "exited"
    /\ CallsOf("finish", 0) # {} => \A k \in Jobs : ~Alive(k)

C6_Witness ==
    /\ i = 2
    /\ ticker[1] = "exited"
    /\ Alive(2)
    /\ pc = "encoding"

\* C7: a failed job is counted as failed and never ends the run: the main
\* flow stops only at the end, and at the end every discovered job has had
\* its message set, convert called, its outcome counted and reported, and
\* the summary is printed
C7_FailureDoesNotAbort ==
    /\ calls # <<>> => pc # "error" /\ err = NoError /\ exit_code # "failure"
    /\ failed = Count(settled, IsFailure)
    /\ ~(ENABLED Next) => pc \in {"done", "error"}
    /\ pc = "done" =>
         /\ Count(out, IsSummary) = 1
         /\ Len(settled) = Len(mov_filenames)
         /\ \A k \in 1..Len(mov_filenames) :
              /\ Cardinality(CallsOf("set_message", k)) = 1
              /\ Cardinality(CallsOf("convert", k)) = 1
              /\ Cardinality(ReportsOf(k)) = 1

C7_Witness ==
    /\ pc = "done"
    /\ Len(settled) = 2
    /\ settled[1] = "Failure"
    /\ \E n \in ReportsOf(1) : out[n].error.at = "create_dir"
    /\ \E n \in ReportsOf(2) : out[n].line = "failure" /\ out[n].error.at = "encoder"
    /\ failed = 2

\* C8: when the encoder is not found or the input directory cannot be
\* read, the run ends at once with that error: no ticker thread, no encoder
\* run, no output directory, no deletion, no count, no summary
C8_PreconditionAbort ==
    IsPreconditionError(err) =>
        /\ pc = "error"
        /\ exit_code = "failure"
        /\ \A k \in Jobs : ticker[k] = "unborn"
        /\ encoder_runs = <<>>
        /\ calls = <<>>
        /\ removals = <<>>
        /\ files = SourceFiles(dir)
        /\ success = 0 /\ failed = 0 /\ settled = <<>>
        /\ Count(out, IsSummary) = 0
        /\ ~(ENABLED Next)

C8_Witness ==
    /\ pc = "error"
    /\ err.kind = "IoError" /\ err.at = "read_dir"
    /\ Len(dir) = MaxEntries
    /\ ~mp4_dir_exists

\* C9 as stated: the run ends with success on normal completion, and with
\* failure only when the encoder was not found or the input directory
\* could not be read
C9_AsStated ==
    /\ pc = "done" => exit_code = "success"
    /\ exit_code = "failure" => IsPreconditionError(err)

\* C10: the position stays within 0..total, equals k once job k is fully
\* processed (advance is called once per job whatever its outcome), and
\* equals total when finish is called
C10_PositionTracksJobs ==
    /\ 0 <= position /\ position <= total
    /\ pc \in InJob => position = i - 1
    /\ pc = "loop" => position = i
    /\ pc = "loop" /\ i = Len(mov_filenames) => position = total
    /\ pc \in {"summary", "done"} => position = total
    /\ \A k \in Jobs : Cardinality(CallsOf("inc", k)) = IF k <= position THEN 1 ELSE 0

C10_Witness ==
    /\ pc = "loop"
    /\ i = 2
    /\ position = 2
    /\ total = 2
    /\ settled = <<"Failure", "Success">>

\* C11: with every encoder run ending and every thread scheduled, a run that
\* reaches the job loop ends: every ticker has exited, finish has been
\* called, and the summary is printed, exactly once and after the last job
\* has settled
C11_RunTerminates ==
    /\ [](Cardinality({n \in DOMAIN out : IsSummary(out[n])}) <= 1)
    /\ [](\A n \in DOMAIN out : IsSummary(out[n]) =>
            Len(settled) = Len(mov_filenames))
    /\ (pc = "begin") ~>
          (/\ pc = "done"
           /\ finished
           /\ \A k \in Jobs : ~Alive(k)
           /\ Len(settled) = Len(mov_filenames)
           /\ Cardinality({n \in DOMAIN out : IsSummary(out[n])}) = 1)

C11_Witness ==
    /\ pc = "done"
    /\ finished
    /\ Len(settled) = 2
    /\ ticker[1] = "exited" /\ ticker[2] = "exited"
    /\ late_ticks = 1
    /\ IsSummary(out[Len(out)])

Range(seq) == {seq[k] : k \in DOMAIN seq}

NoSideEffects ==
    /\ \A k \in Jobs : ticker[k] = "unborn"
    /\ encoder_runs = <<>> /\ encoder_exits = <<>>
    /\ removals = <<>>
    /\ files = SourceFiles(dir)
    /\ \A n \in DOMAIN calls : calls[n].op = "finish"

\* C12: with no matching file in a readable directory the run completes
\* with total = succeeded = failed = 0 and without side effects: no ticker
\* thread, no encoder run, no output directory made, no file removed
C12_NoFilesNoEffects ==
    (mov_filenames = <<>> /\ err = NoError) =>
        /\ NoSideEffects
        /\ pc \in {"prompt", "get_ffmpeg_path", "get_all_mov", "begin", "loop",
                   "summary", "done"}
        /\ total = 0 /\ success = 0 /\ failed = 0 /\ position = 0
        /\ pc \notin {"done"} => ENABLED MainStep
        /\ pc = "done" =>
             /\ exit_code = "success"
             /\ \E n \in DOMAIN out :
                  IsSummary(out[n]) /\ out[n].counts = <<0, 0, 0>>

C12_Witness ==
    /\ pc = "done"
    /\ total = 0
    /\ Len(dir) = MaxEntries
    /\ ~mp4_dir_exists
    /\ exit_code = "success"

PastDiscovery == pc \notin {"prompt", "get_ffmpeg_path", "get_all_mov", "error"}

\* the files the filter is said to keep: regular files whose extension is
\* the source extension, upper or lower case
HasSourceExtension(name) ==
    HasExtension(name) /\ ToLowercase(Extension(name)) = Str_mov
IsMatchingEntry(e) == e.kind = "file" /\ HasSourceExtension(e.name)
IsListableEntry(e) == IsMatchingEntry(e) /\ IsUtf8(e.name)

PathsOf(entries) == [k \in DOMAIN entries |-> Join(MovDir, entries[k].name)]

\* C13 as stated: discovery fails only when the directory itself cannot be
\* read; an entry that cannot be read is skipped and the matching files
\* among the other entries are returned
C13_AsStated ==
    /\ err.at \notin {"read_entry", "to_str"}
    /\ PastDiscovery =>
          \A k \in DOMAIN dir :
              IsListableEntry(dir[k]) =>
                  Join(MovDir, dir[k].name) \in Range(mov_filenames)

\* C14 as stated: what discovery returns is exactly the regular files with
\* the source extension in any case, in listing order
C14_AsStated ==
    PastDiscovery => mov_filenames = PathsOf(SelectSeq(dir, IsMatchingEntry))

\* C14 amended: what discovery returns is exactly the regular files with a
\* valid UTF-8 name and the source extension in any case, in listing order;
\* a subdirectory, a file with another or no extension is never returned
C14_DiscoveryFilter ==
    PastDiscovery =>
        /\ mov_filenames = PathsOf(SelectSeq(dir, IsListableEntry))
        /\ \A k \in DOMAIN dir :
             /\ dir[k].kind = "dir" =>
                  Join(MovDir, dir[k].name) \notin Range(mov_filenames)
             /\ dir[k].name \in {<<"d">>, <<"c", ".", "t", "x", "t">>} =>
                  Join(MovDir, dir[k].name) \notin Range(mov_filenames)
             /\ dir[k].name = <<"a", ".", "M", "O", "V">> =>
                  Join(MovDir, dir[k].name) \in Range(mov_filenames)

C14_Witness ==
    /\ pc = "begin"
    /\ Len(dir) = 2
    /\ ~IsUtf8(dir[1].name) /\ dir[1].kind = "file"
    /\ dir[2].name = <<"a", ".", "M", "O", "V">>
    /\ mov_filenames = <<Join(MovDir, <<"a", ".", "M", "O", "V">>)>>

JobOf(path) == CHOOSE k \in DOMAIN mov_filenames : mov_filenames[k] = path

\* C15: a failed removal of the source of a successful job leaves the job
\* a success and the run going: the job is counted in succeeded, gets a
\* success line, and the run does not end in an error
C15_DeleteFailureIgnored ==
    \A r \in DOMAIN removals : ~removals[r].ok =>
        LET k == JobOf(removals[r].path) IN
        /\ pc # "error" /\ err = NoError
        /\ removals[r].path \in files
        /\ k <= Len(settled) => settled[k] = "Success"
        /\ success = Count(settled, IsSuccess)
        /\ failed = Count(settled, IsFailure)
        /\ \A n \in ReportsOf(k) : out[n].line = "success"
        /\ pc \in {"stop", "join", "inc", "loop"} \/ k < i =>
             Cardinality(ReportsOf(k)) = 1
        /\ pc = "done" =>
             /\ Len(settled) = Len(mov_filenames)
             /\ \A j \in 1..Len(mov_filenames) : Cardinality(ReportsOf(j)) = 1

C15_Witness ==
    /\ pc = "done"
    /\ Len(removals) = 2
    /\ ~removals[1].ok
    /\ removals[2].ok
    /\ settled = <<"Success", "Success">>
    /\ success = 2

\* the text of a captured stderr: each valid byte is its character, each
\* invalid byte the replacement character
IsTextOf(text, bytes) ==
    /\ Len(text) = Len(bytes)
    /\ \A k \in 1..Len(bytes) :
         text[k] = IF bytes[k] < 128 THEN bytes[k] ELSE 65533

\* C16: an encoder run that ends gives Success exactly when its exit status
\* is zero, and otherwise a Failure whose diagnostic is the text of the
\* captured stderr, which is also in the failure line printed for the job
C16_ExitStatusDecidesOutcome ==
    \A n \in DOMAIN encoder_exits :
        LET x == encoder_exits[n] IN
        /\ (pc = "match" /\ x.job = i) =>
             /\ result.ok <=> x.status_ok
             /\ ~x.status_ok =>
                  /\ result.error.kind = "FFmpegError"
                  /\ IsTextOf(result.error.text, x.stderr)
        /\ x.job <= Len(settled) =>
             (settled[x.job] = "Success" <=> x.status_ok)
        /\ \A m \in ReportsOf(x.job) :
             /\ out[m].line = "success" <=> x.status_ok
             /\ ~x.status_ok =>
                  /\ out[m].error.kind = "FFmpegError"
                  /\ IsTextOf(out[m].error.text, x.stderr)

C16_Witness ==
    /\ pc = "stop"
    /\ i = 1
    /\ encoder_exits = <<[job |-> 1, status_ok |-> FALSE, stderr |-> <<98, 97, 100>>]>>
    /\ \E m \in ReportsOf(1) : out[m].error.text = <<98, 97, 100>>

InProgress == Len(encoder_runs) - Len(encoder_exits)

\* C17: jobs run one at a time in discovery order: at most one encoder run
\* is in progress, and the run for file k+1 starts only after file k's
\* outcome is counted, its ticker joined and the position advanced
C17_Sequential ==
    /\ InProgress \in {0, 1}
    /\ InProgress = 1 <=> pc = "encoding"
    /\ \A n \in DOMAIN encoder_runs :
         /\ encoder_runs[n].input = mov_filenames[encoder_runs[n].job]
         /\ \A m \in 1..(n - 1) : encoder_runs[m].job < encoder_runs[n].job
    /\ pc \in {"convert", "encoding"} =>
         /\ Len(settled) = i - 1
         /\ position = i - 1
         /\ \A k \in 1..(i - 1) : ticker[k] = "exited"
    /\ \A n \in DOMAIN calls :
         (calls[n].op = "convert" /\ calls[n].job > 1) =>
            \E a, b \in 1..(n - 1) :
                /\ a < b
                /\ calls[a] = Call("join", calls[n].job - 1)
                /\ calls[b] = Call("inc", calls[n].job - 1)

C17_Witness ==
    /\ pc = "encoding"
    /\ i = 2
    /\ Len(encoder_runs) = 2
    /\ Len(encoder_exits) = 1
    /\ position = 1

\* C18: a tick changes nothing but the spinner: position, total, message,
\* the counters and the file system stay as they were
C18_TickChangesNothing ==
    [][\A k \in Jobs : TickStep(k) =>
          UNCHANGED <<position, len, total, message, finished, success, failed,
                      mov_filenames, files, mp4_dir_exists, dir, removals,
                      encoder_runs, settled, out>>]_vars

C18_Witness ==
    /\ spinner = 1
    /\ pc = "encoding"
    /\ ticker[i] = "load"
    /\ position = 0

\* C19: once the flag of a job is cleared its ticker ticks at most once
\* more; having read the flag as false it leaves the loop and never sleeps
\* or ticks again
C19_AtMostOneLateTick ==
    /\ [](late_ticks <= 1)
    /\ [][\A k \in Jobs :
            /\ (ticker[k] = "load" /\ ~should_continue[k]) =>
                   ticker'[k] \in {"load", "exited"}
            /\ ticker[k] = "exited" => ticker'[k] = "exited"]_vars

C19_Witness ==
    /\ pc = "join"
    /\ late_ticks = 1
    /\ ticker[i] = "load"
    /\ ~should_continue[i]

\* C20 as stated: distinct discovered files have distinct output paths, so
\* no two encoder runs of a batch write the same file
C20_AsStated ==
    /\ \A j, k \in DOMAIN mov_filenames :
         j # k => Mp4File(mov_filenames[j]) # Mp4File(mov_filenames[k])
    /\ \A m, n \in DOMAIN encoder_runs :
         m # n => encoder_runs[m].output # encoder_runs[n].output

====
